---- MODULE Spec2Model ----
(***************************************************************************)
(* A model of the two Sparkle helper scripts of ClickIt:                   *)
(*   scripts/generate_signatures.py  (AssetSigner and FeedPatcher)         *)
(*   scripts/generate_eddsa_keys.py  (KeyGenerator)                        *)
(*                                                                         *)
(* Text is modelled as a sequence of tokens.  The one-character tokens     *)
(* " ", "/", ">" and "\n" stand for themselves, every other token stands   *)
(* for a run of characters none of which the code inspects on its own.     *)
(* `x in line` is containment of a contiguous run of tokens.               *)
(***************************************************************************)
EXTENDS Integers, Sequences, FiniteSets, TLC

VARIABLES
    \* ---- FeedPatcher as a function (SpecPatch) ----
    doc0,              \* the feed document handed to the first run
    sigs,              \* asset_signatures: the dict, as its sequence of items
    content,           \* the document after the runs made so far
    afterFirst,        \* the document as the first run left it
    runs,              \* number of runs of update_appcast_with_signatures
    \* ---- AssetSigner (SpecSigner) ----
    private_key,       \* os.environ.get('SPARKLE_PRIVATE_KEY')
    assets_exists,     \* assets_path.exists()
    dist,              \* the *.zip / *.dmg file names in the assets directory
    signatures_file,   \* signatures.json: File(items) or Absent
    docs_exists,       \* Path('docs').exists()
    feeds,             \* feed name -> File(text) or Absent
    tmp_keys,          \* the temporary private-key files on disk
    asset_signatures,  \* main's dict, as its sequence of items
    spc,               \* position of main / the running callee
    cur,               \* file_path of the signing call in progress
    glob,              \* which of main's two loops is running: "zip", "dmg"
    todo,              \* files the current glob has still to yield
    ret,               \* what the signing call in progress is about to return
    senv,              \* which signing backends this machine has
    opened_w,          \* paths main or a callee has opened for writing
    outcome,           \* file name -> how its signing call ended
    feed_todo,         \* feed documents main has still to visit
    feed_cur,          \* appcast_path of the running update
    feed_buf,          \* `content` inside update_appcast_with_signatures
    feed_result,       \* feed name -> how its update ended
    exit_code,         \* main's return value ({} while running)
    disk0,             \* signatures.json and the feeds as main found them
    backend_calls,     \* number of signing-backend invocations so far
    \* ---- KeyGenerator (SpecKeygen) ----
    env,               \* what the environment will answer (tools, library, I/O)
    kpc,               \* position of main / the running callee
    keys,              \* main's `keys`
    out_files,         \* file name -> [exists, data, mode] in output_dir
    out_files0,        \* output_dir as main found it
    kexit              \* process exit status ({} while running)

patchVars  == <<doc0, sigs, content, afterFirst, runs>>
signerVars == <<private_key, assets_exists, dist, signatures_file, docs_exists,
                feeds, tmp_keys, asset_signatures, spc, cur, glob, todo, ret,
                senv, opened_w, outcome,
                feed_todo, feed_cur, feed_buf, feed_result,
                exit_code, disk0, backend_calls>>
keygenVars == <<env, kpc, keys, out_files, out_files0, kexit>>
vars == <<patchVars, signerVars, keygenVars>>

\* ------------------------------------------------------------------ bounds
\* Longest feed document, in lines, that SpecPatch draws.
MaxLines == 3
\* Most release assets in the assets directory of SpecSigner.
MaxAssets == 2

\* ------------------------------------------------------------ text helpers
None   == "<None>"
\* A file: present with its data, or absent.
File(data) == [exists |-> TRUE, data |-> data]
Absent == [exists |-> FALSE, data |-> <<>>]

\* Python truthiness of a str-or-None value.
Truthy(x) == x # None /\ x # ""

\* needle in hay, on token sequences.
Contains(hay, needle) ==
    \E i \in 0..(Len(hay) - Len(needle)) :
        \A j \in 1..Len(needle) : hay[i + j] = needle[j]

\* token in hay, for a one-token needle.
HasToken(hay, tok) == \E i \in 1..Len(hay) : hay[i] = tok

\* content.split('\n')
RECURSIVE SplitFrom(_, _, _)
SplitFrom(text, i, line) ==
    IF i > Len(text) THEN <<line>>
    ELSE IF text[i] = "\n" THEN <<line>> \o SplitFrom(text, i + 1, <<>>)
    ELSE SplitFrom(text, i + 1, Append(line, text[i]))

Split(text) == SplitFrom(text, 1, <<>>)

\* '\n'.join(lines)
RECURSIVE Join(_)
Join(lines) ==
    IF Len(lines) = 0 THEN <<>>
    ELSE IF Len(lines) = 1 THEN lines[1]
    ELSE lines[1] \o <<"\n">> \o Join(Tail(lines))

\* line.rstrip(' />'): drops every trailing character that is ' ', '/' or '>'.
StripChars == {" ", "/", ">"}

RECURSIVE RStrip(_)
RStrip(line) ==
    IF Len(line) > 0 /\ line[Len(line)] \in StripChars
    THEN RStrip(SubSeq(line, 1, Len(line) - 1))
    ELSE line

\* f' sparkle:edSignature="{signature}" />'
SigAttr(signature) ==
    <<" ", "sparkle:edSignature=", "Q", signature, "Q", " ", "/", ">">>

\* ------------------------------------------------- FeedPatcher, in memory
\* 'url=' in line and asset_name in line and 'enclosure' in line
LineMatches(line, asset_name) ==
    /\ HasToken(line, "url=")
    /\ Contains(line, asset_name)
    /\ HasToken(line, "<enclosure")

\* 'sparkle:edSignature=' in line
LineSigned(line) == HasToken(line, "sparkle:edSignature=")

\* The inner loop: the first matching line that carries no signature gets one,
\* and the loop breaks there; matching lines that carry one are passed over.
RECURSIVE ScanLines(_, _, _, _)
ScanLines(lines, i, asset_name, signature) ==
    IF i > Len(lines) THEN lines
    ELSE IF LineMatches(lines[i], asset_name) /\ ~LineSigned(lines[i])
         THEN [lines EXCEPT ![i] = RStrip(lines[i]) \o SigAttr(signature)]
         ELSE ScanLines(lines, i + 1, asset_name, signature)

\* One pass of the outer loop, for one item of the dict.
PatchAsset(text, asset_name, signature) ==
    IF Truthy(signature)
    THEN Join(ScanLines(Split(text), 1, asset_name, signature))
    ELSE text

\* The outer loop over asset_signatures.items(), in the dict's order.
RECURSIVE PatchContent(_, _)
PatchContent(text, items) ==
    IF Len(items) = 0 THEN text
    ELSE PatchContent(PatchAsset(text, items[1].name, items[1].sig), Tail(items))

\* ------------------------------------------------------- documents drawn
\* Asset file names, as token runs: App.zip, MyApp.zip, App.dmg.
AppZip   == <<"App", ".zip">>
MyAppZip == <<"My", "App", ".zip">>
AppDmg   == <<"App", ".dmg">>
AssetNames == {AppZip, MyAppZip, AppDmg}
ZipNames == {n \in AssetNames : n[Len(n)] = ".zip"}
DmgNames == {n \in AssetNames : n[Len(n)] = ".dmg"}

\* The Ed25519 signature of an asset: deterministic per asset, never empty.
SigFor(n) == IF n = AppZip THEN "sigAppZip"
             ELSE IF n = MyAppZip THEN "sigMyAppZip"
             ELSE "sigAppDmg"

\* <enclosure url="https://x/NAME" />, possibly already signed by an earlier run.
Enclosure(n, signed) ==
    <<"<enclosure", " ", "url=", "Q", "https://x/">> \o n \o <<"Q">>
    \o (IF signed THEN SigAttr("sigOld") ELSE <<" ", "/", ">">>)

PlainLine == <<"<item", ">">>

LineShapes ==
    {Enclosure(n, s) : n \in AssetNames, s \in BOOLEAN} \cup {PlainLine}

RECURSIVE SeqsUpTo(_, _)
SeqsUpTo(S, n) ==
    IF n = 0 THEN {<<>>}
    ELSE LET shorter == SeqsUpTo(S, n - 1)
         IN shorter \cup {Append(s, x) : s \in {t \in shorter : Len(t) = n - 1}, x \in S}

Documents == {Join(ls) : ls \in SeqsUpTo(LineShapes, MaxLines) \ {<<>>}}

\* Every dict over a set of asset names, in every insertion order.
Distinct(s) == \A i, j \in 1..Len(s) : i # j => s[i] # s[j]
Orders(S) == {s \in SeqsUpTo(S, Cardinality(S)) : Distinct(s)}
Perms(S) == {s \in Orders(S) : Len(s) = Cardinality(S)}
Items(order) == [i \in 1..Len(order) |-> [name |-> order[i], sig |-> SigFor(order[i])]]
SignatureMaps == {Items(o) : o \in Orders(AssetNames)}
Keys(items) == {items[i].name : i \in 1..Len(items)}
Lookup(items, n) == LET i == CHOOSE k \in 1..Len(items) : items[k].name = n
                    IN items[i].sig

\* ---------------------------------------------- idle values of each part
PatchIdle ==
    /\ doc0 = <<>> /\ sigs = <<>> /\ content = <<>> /\ afterFirst = <<>> /\ runs = 0

\* ------------------------------------------------------------- SpecPatch
\* update_appcast_with_signatures applied to a document the file system
\* reads and writes back whole: patch(doc, sigs).
MaxRuns == 2

UpdateAppcast ==
    /\ runs < MaxRuns
    /\ content' = PatchContent(content, sigs)
    /\ afterFirst' = IF runs = 0 THEN content' ELSE afterFirst
    /\ runs' = runs + 1
    /\ UNCHANGED <<doc0, sigs, signerVars, keygenVars>>

PatchInit ==
    /\ doc0 \in Documents
    /\ sigs \in SignatureMaps
    /\ content = doc0
    /\ afterFirst = doc0
    /\ runs = 0

\* ------------------------------------------- what an entry of a feed is
\* An entry is an enclosure line; the asset it references is the file name
\* component of its URL (the tokens between the URL's last '/' and its quote).
IsEntry(line) == HasToken(line, "<enclosure") /\ HasToken(line, "https://x/")
EntryAsset(line) ==
    LET p == CHOOSE i \in 1..Len(line) : line[i] = "https://x/"
        q == CHOOSE i \in (p + 1)..Len(line) :
                 line[i] = "Q" /\ \A k \in (p + 1)..(i - 1) : line[k] # "Q"
    IN SubSeq(line, p + 1, q - 1)
\* The values of the sparkle:edSignature attributes of a line, left to right.
RECURSIVE SigValues(_)
SigValues(line) ==
    IF Len(line) = 0 THEN <<>>
    ELSE IF line[1] = "sparkle:edSignature=" THEN <<line[3]>> \o SigValues(Tail(line))
    ELSE SigValues(Tail(line))

\* ============================================================ AssetSigner
FeedNames == <<"appcast.xml", "appcast-beta.xml">>
FeedSet == {FeedNames[i] : i \in 1..Len(FeedNames)}

\* The feed documents the two conventional paths may hold.
StableFeed == Join(<<PlainLine, Enclosure(AppZip, FALSE), Enclosure(AppDmg, FALSE)>>)
BetaFeed   == Join(<<Enclosure(MyAppZip, FALSE), Enclosure(AppZip, FALSE)>>)
FeedChoice(f) == IF f = "appcast.xml" THEN StableFeed ELSE BetaFeed

SignerIdle ==
    /\ private_key = None /\ assets_exists = FALSE /\ dist = {}
    /\ signatures_file = Absent /\ docs_exists = FALSE
    /\ feeds = [f \in FeedSet |-> Absent] /\ tmp_keys = {}
    /\ asset_signatures = <<>> /\ spc = "idle" /\ cur = <<>> /\ glob = "zip"
    /\ todo = {} /\ ret = None /\ senv = [sign_update |-> FALSE, nacl |-> FALSE]
    /\ opened_w = {} /\ outcome = [n \in AssetNames |-> "none"]
    /\ feed_todo = <<>> /\ feed_cur = "" /\ feed_buf = <<>>
    /\ feed_result = [f \in FeedSet |-> "none"] /\ exit_code = {}
    /\ disk0 = [sig |-> Absent, feeds |-> [f \in FeedSet |-> Absent]]
    /\ backend_calls = 0

SignerInit ==
    /\ private_key \in {None, "", "KEY"}
    /\ assets_exists \in BOOLEAN
    /\ dist \in {d \in SUBSET AssetNames :
                    Cardinality(d) <= MaxAssets /\ (~assets_exists => d = {})}
    /\ signatures_file \in
          {Absent} \cup (IF assets_exists THEN {File(Items(<<AppDmg>>))} ELSE {})
    /\ docs_exists \in BOOLEAN
    /\ feeds \in [FeedSet -> {Absent} \cup {File(StableFeed), File(BetaFeed)}]
    /\ \A f \in FeedSet : feeds[f].exists => docs_exists /\ feeds[f].data = FeedChoice(f)
    /\ senv \in [sign_update : BOOLEAN, nacl : BOOLEAN]
    /\ tmp_keys = {} /\ asset_signatures = <<>> /\ spc = "main" /\ cur = <<>>
    /\ glob = "zip" /\ todo = {} /\ ret = None /\ opened_w = {}
    /\ outcome = [n \in AssetNames |-> "none"]
    /\ feed_todo = <<>> /\ feed_cur = "" /\ feed_buf = <<>>
    /\ feed_result = [f \in FeedSet |-> "none"] /\ exit_code = {}
    /\ disk0 = [sig |-> signatures_file, feeds |-> feeds]
    /\ backend_calls = 0

\* What each step of main leaves alone.
diskVars == <<signatures_file, feeds, tmp_keys, opened_w>>
inputVars == <<private_key, assets_exists, dist, docs_exists, senv, disk0>>
signVars == <<asset_signatures, cur, glob, todo, ret, outcome, backend_calls>>
feedVars == <<feed_todo, feed_cur, feed_buf, feed_result>>

\* main, lines 125-128: the guard on SPARKLE_PRIVATE_KEY.
MainGuardMissing ==
    /\ spc = "main"
    /\ spc' = "checkdir"
    /\ UNCHANGED <<exit_code, diskVars, inputVars, signVars, feedVars, patchVars, keygenVars>>

MainGuard ==
    /\ spc = "main"
    /\ IF ~Truthy(private_key)
       THEN spc' = "done" /\ exit_code' = {0}
       ELSE spc' = "checkdir" /\ UNCHANGED exit_code
    /\ UNCHANGED <<diskVars, inputVars, signVars, feedVars, patchVars, keygenVars>>

\* main, lines 131-143: the assets directory must exist; then glob('*.zip').
MainCheckDir ==
    /\ spc = "checkdir"
    /\ IF ~assets_exists
       THEN spc' = "done" /\ exit_code' = {1} /\ UNCHANGED <<glob, todo>>
       ELSE spc' = "loop" /\ glob' = "zip" /\ todo' = dist \cap ZipNames
            /\ UNCHANGED exit_code
    /\ UNCHANGED <<diskVars, inputVars, asset_signatures, cur, ret, outcome,
                   backend_calls, feedVars, patchVars, keygenVars>>

\* main, lines 143-145 and 152-154: the glob yields its next file, in whatever
\* order the file system lists them, and main calls generate_eddsa_signature;
\* an exhausted '*.zip' glob gives way to the '*.dmg' one, and that to the save.
LoopNext ==
    /\ spc = "loop"
    /\ \/ /\ todo # {}
          /\ \E f \in todo : cur' = f /\ todo' = todo \ {f}
          /\ spc' = "which"
          /\ UNCHANGED glob
       \/ /\ todo = {} /\ glob = "zip"
          /\ glob' = "dmg" /\ todo' = dist \cap DmgNames
          /\ UNCHANGED <<spc, cur>>
       \/ /\ todo = {} /\ glob = "dmg"
          /\ spc' = "save"
          /\ UNCHANGED <<glob, todo, cur>>
    /\ UNCHANGED <<exit_code, diskVars, inputVars, asset_signatures, ret, outcome,
                   backend_calls, feedVars, patchVars, keygenVars>>

\* asset_signatures[name] = signature
SetItem(items, name, signature) ==
    IF name \in Keys(items)
    THEN [i \in 1..Len(items) |->
             IF items[i].name = name THEN [name |-> name, sig |-> signature]
             ELSE items[i]]
    ELSE Append(items, [name |-> name, sig |-> signature])

\* main, lines 146-150 and 155-159: what main does with the value returned.
MainRecord(signature, how) ==
    /\ asset_signatures' =
          IF Truthy(signature) THEN SetItem(asset_signatures, cur, signature)
          ELSE asset_signatures
    /\ outcome' = [outcome EXCEPT ![cur] = how]
    /\ spc' = "loop"

\* An exception nothing catches: the interpreter prints it and exits 1.
Uncaught(how) ==
    /\ outcome' = [outcome EXCEPT ![cur] = how]
    /\ spc' = "crashed"
    /\ exit_code' = {1}

CalledProcessError == "<CalledProcessError>"

\* generate_eddsa_signature, lines 28-31: probe for sign_update.
SignWhich ==
    /\ spc = "which"
    /\ backend_calls' = backend_calls + 1
    /\ spc' = IF senv.sign_update THEN "mktemp" ELSE "python"
    /\ UNCHANGED <<exit_code, diskVars, inputVars, asset_signatures, cur, glob, todo,
                   ret, outcome, feedVars, patchVars, keygenVars>>

\* generate_eddsa_signature, lines 34-36: NamedTemporaryFile(delete=False) creates
\* the file; writing the key into it succeeds, or fails with an OSError that
\* leaves the `with` block and the function (line 52 catches CalledProcessError only).
SignMkTemp ==
    /\ spc = "mktemp"
    /\ tmp_keys' = tmp_keys \cup {cur}
    /\ \/ /\ spc' = "run"
          /\ UNCHANGED <<outcome, exit_code>>
       \/ Uncaught("tmp_write_error")
    /\ UNCHANGED <<signatures_file, feeds, opened_w, inputVars, asset_signatures, cur,
                   glob, todo, ret, backend_calls, feedVars, patchVars, keygenVars>>

\* generate_eddsa_signature, lines 40-46: sign_update exits 0 and prints the
\* signature (or nothing), or exits non-zero and run_command raises.
SignRunTool ==
    /\ spc = "run"
    /\ \/ ret' \in {SigFor(cur), ""}
       \/ ret' = CalledProcessError
    /\ spc' = "unlink"
    /\ UNCHANGED <<exit_code, diskVars, inputVars, asset_signatures, cur, glob, todo,
                   outcome, backend_calls, feedVars, patchVars, keygenVars>>

\* generate_eddsa_signature, lines 48-54, and main's use of the result: the
\* finally clause removes the key file; CalledProcessError becomes None.
SignUnlinkUncaught ==
    /\ spc = "unlink"
    /\ tmp_keys' = tmp_keys \ {cur}
    /\ IF ret = CalledProcessError
       THEN Uncaught("tool_failed") /\ UNCHANGED asset_signatures
       ELSE MainRecord(ret, IF Truthy(ret) THEN "signed" ELSE "empty")
            /\ UNCHANGED exit_code
    /\ UNCHANGED <<signatures_file, feeds, opened_w, inputVars, cur, glob, todo, ret,
                   backend_calls, feedVars, patchVars, keygenVars>>

SignUnlink ==
    /\ spc = "unlink"
    /\ tmp_keys' = tmp_keys \ {cur}
    /\ IF ret = CalledProcessError
       THEN MainRecord(None, "tool_failed")
       ELSE MainRecord(ret, IF Truthy(ret) THEN "signed" ELSE "empty")
    /\ UNCHANGED <<exit_code, signatures_file, feeds, opened_w, inputVars, cur, glob,
                   todo, ret, backend_calls, feedVars, patchVars, keygenVars>>

\* generate_eddsa_signature_python, lines 61-89, and main's use of the result:
\* without PyNaCl the import fails; a key that does not parse or a file that
\* cannot be read raises; each is caught and becomes None.
SignPython ==
    /\ spc = "python"
    /\ \/ /\ ~senv.nacl
          /\ MainRecord(None, "py_import_error")
       \/ /\ senv.nacl
          /\ MainRecord(None, "py_error")
       \/ /\ senv.nacl
          /\ MainRecord(SigFor(cur), "py_signed")
    /\ UNCHANGED <<exit_code, diskVars, inputVars, cur, glob, todo, ret,
                   backend_calls, feedVars, patchVars, keygenVars>>

\* main, lines 162-166: json.dump of the dict into signatures.json.
MainSave ==
    /\ spc = "save"
    /\ opened_w' = opened_w \cup {"signatures.json"}
    /\ signatures_file' = File(asset_signatures)
    /\ spc' = "docs"
    /\ UNCHANGED <<exit_code, feeds, tmp_keys, inputVars, signVars, feedVars,
                   patchVars, keygenVars>>

\* main, lines 169-171: the feeds are visited only if docs/ exists.
MainDocs ==
    /\ spc = "docs"
    /\ IF docs_exists
       THEN feed_todo' = FeedNames /\ spc' = "feeds" /\ UNCHANGED exit_code
       ELSE spc' = "done" /\ exit_code' = {0} /\ UNCHANGED feed_todo
    /\ UNCHANGED <<diskVars, inputVars, signVars, feed_cur, feed_buf, feed_result,
                   patchVars, keygenVars>>

\* main, lines 171-177: each feed that exists is updated; then main returns 0.
FeedNext ==
    /\ spc = "feeds"
    /\ \/ /\ feed_todo = <<>>
          /\ spc' = "done" /\ exit_code' = {0}
          /\ UNCHANGED <<feed_todo, feed_cur>>
       \/ /\ feed_todo # <<>> /\ feeds[Head(feed_todo)].exists
          /\ feed_cur' = Head(feed_todo)
          /\ feed_todo' = Tail(feed_todo)
          /\ spc' = "u_read"
          /\ UNCHANGED exit_code
       \/ /\ feed_todo # <<>> /\ ~feeds[Head(feed_todo)].exists
          /\ feed_todo' = Tail(feed_todo)
          /\ UNCHANGED <<spc, exit_code, feed_cur>>
    /\ UNCHANGED <<diskVars, inputVars, signVars, feed_buf, feed_result,
                   patchVars, keygenVars>>

\* update_appcast_with_signatures, lines 93-111 and 119-120: the document is
\* read and patched in memory, or the read raises and the except clause reports.
UpdateRead ==
    /\ spc = "u_read"
    /\ \/ /\ feed_buf' = PatchContent(feeds[feed_cur].data, asset_signatures)
          /\ spc' = "u_open"
          /\ UNCHANGED feed_result
       \/ /\ feed_result' = [feed_result EXCEPT ![feed_cur] = "failed"]
          /\ spc' = "feeds"
          /\ UNCHANGED feed_buf
    /\ UNCHANGED <<exit_code, diskVars, inputVars, signVars, feed_todo, feed_cur,
                   patchVars, keygenVars>>

\* update_appcast_with_signatures, line 114: open(appcast_path, 'w') truncates
\* the document, or raises (no permission) and leaves it alone.
UpdateOpen ==
    /\ spc = "u_open"
    /\ \/ /\ feeds' = [feeds EXCEPT ![feed_cur] = File(<<>>)]
          /\ opened_w' = opened_w \cup {feed_cur}
          /\ spc' = "u_write"
          /\ UNCHANGED feed_result
       \/ /\ feed_result' = [feed_result EXCEPT ![feed_cur] = "failed"]
          /\ spc' = "feeds"
          /\ UNCHANGED <<feeds, opened_w>>
    /\ UNCHANGED <<exit_code, signatures_file, tmp_keys, inputVars, signVars,
                   feed_todo, feed_cur, feed_buf, patchVars, keygenVars>>

\* update_appcast_with_signatures, lines 115-120: the patched text is written
\* whole, or the write (or the flush on close) raises with only a part of it on
\* disk (no space left, I/O error); the except clause reports either way.
UpdateWrite ==
    /\ spc = "u_write"
    /\ \/ /\ feeds' = [feeds EXCEPT ![feed_cur] = File(feed_buf)]
          /\ feed_result' = [feed_result EXCEPT ![feed_cur] = "updated"]
       \/ /\ \E k \in 0..(Len(feed_buf) - 1) :
                feeds' = [feeds EXCEPT ![feed_cur] = File(SubSeq(feed_buf, 1, k))]
          /\ feed_result' = [feed_result EXCEPT ![feed_cur] = "failed"]
    /\ spc' = "feeds"
    /\ UNCHANGED <<exit_code, signatures_file, tmp_keys, opened_w, inputVars, signVars,
                   feed_todo, feed_cur, feed_buf, patchVars, keygenVars>>

SignerNext ==
    \/ MainGuard \/ MainCheckDir \/ LoopNext
    \/ SignWhich \/ SignMkTemp \/ SignRunTool \/ SignUnlink \/ SignPython
    \/ MainSave \/ MainDocs \/ FeedNext
    \/ UpdateRead \/ UpdateOpen \/ UpdateWrite

\* ============================================================ KeyGenerator
OutNames ==
    {"sparkle_private_key.txt", "sparkle_public_key.txt", "github_secrets_setup.md"}

\* Permission bits of a file, and those a umask of 022 or of 077 takes away.
OwnerOnly == {"ur", "uw"}
ReadWriteAll == {"ur", "uw", "gr", "gw", "or", "ow"}
Umask022 == {"gw", "ow"}
Umask077 == {"gr", "gw", "or", "ow"}

NoOutFile == [exists |-> FALSE, data |-> <<>>, mode |-> {}]
\* A file an earlier run left in output_dir.
OldOutFile(f) ==
    [exists |-> TRUE, data |-> <<"old">>,
     mode |-> IF f = "sparkle_private_key.txt" THEN OwnerOnly
              ELSE ReadWriteAll \ Umask022]

KeygenIdle ==
    /\ env = [generate_keys |-> "missing", private_line |-> TRUE,
              public_line |-> TRUE, nacl |-> "missing", umask |-> Umask022]
    /\ kpc = "idle" /\ keys = <<>>
    /\ out_files = [f \in OutNames |-> NoOutFile]
    /\ out_files0 = [f \in OutNames |-> NoOutFile] /\ kexit = {}

KeygenInit ==
    /\ env \in [generate_keys : {"missing", "fails", "ok"},
                private_line : BOOLEAN, public_line : BOOLEAN,
                nacl : {"missing", "error", "ok"},
                umask : {Umask022, Umask077}]
    /\ env.generate_keys # "ok" => env.private_line /\ env.public_line
    /\ kpc = "main" /\ keys = <<>>
    /\ out_files \in [OutNames -> {NoOutFile} \cup {OldOutFile(f) : f \in OutNames}]
    /\ \A f \in OutNames : out_files[f] \in {NoOutFile, OldOutFile(f)}
    /\ out_files0 = out_files
    /\ kexit = {}

\* `keys` is None (modelled <<>>, the only falsy value it takes) or the pair
\* <<private, public>>, each a key or None.
NoKeys == <<>>

\* generate_with_sparkle_tools, lines 16-40.  A missing tool and a failing one
\* give None; a tool that exits 0 gives the pair of whatever its output's
\* 'Private key:' and 'Public key:' lines held, None for a line it lacks.
GenerateWithSparkleTools ==
    /\ kpc = "main"
    /\ keys' = IF env.generate_keys = "ok"
               THEN <<IF env.private_line THEN "SK" ELSE None,
                      IF env.public_line THEN "PK" ELSE None>>
               ELSE NoKeys
    /\ kpc' = "fallback"
    /\ UNCHANGED <<env, out_files, out_files0, kexit, patchVars, signerVars>>

\* main, lines 114-116, with generate_with_python, lines 44-63.
GenerateWithPython ==
    /\ kpc = "fallback"
    /\ keys' = IF keys # NoKeys THEN keys
               ELSE IF env.nacl = "ok" THEN <<"SK", "PK">>
               ELSE NoKeys
    /\ kpc' = "check"
    /\ UNCHANGED <<env, out_files, out_files0, kexit, patchVars, signerVars>>

\* main, lines 118-124: `if not keys` aborts with status 1.
MainCheckKeys ==
    /\ kpc = "check"
    /\ IF keys = NoKeys
       THEN kpc' = "done" /\ kexit' = {1}
       ELSE kpc' = "open_private" /\ UNCHANGED kexit
    /\ UNCHANGED <<env, keys, out_files, out_files0, patchVars, signerVars>>

\* open(path, 'w'): creates the file with the mode the umask leaves, or
\* truncates the one that is there and keeps its mode.
OpenW(f) ==
    out_files' = [out_files EXCEPT ![f] =
        [exists |-> TRUE, data |-> <<>>,
         mode |-> IF out_files[f].exists THEN out_files[f].mode
                  ELSE ReadWriteAll \ env.umask]]

\* An exception main does not catch: traceback, exit status 1.
KeygenUncaught == kpc' = "crashed" /\ kexit' = {1}

\* f.write(value): a str is written; None raises TypeError; the write of a str
\* may raise OSError.  Either exception leaves the opened file as it is.
WriteOrRaise(f, value, next) ==
    \/ /\ value # None
       /\ out_files' = [out_files EXCEPT ![f].data = value]
       /\ kpc' = next /\ UNCHANGED kexit
    \/ /\ value # None
       /\ KeygenUncaught /\ UNCHANGED out_files
    \/ /\ value = None
       /\ KeygenUncaught /\ UNCHANGED out_files

\* save_keys_to_files, lines 71-72.
SaveOpenPrivate ==
    /\ kpc = "open_private"
    /\ \/ OpenW("sparkle_private_key.txt") /\ kpc' = "write_private" /\ UNCHANGED kexit
       \/ KeygenUncaught /\ UNCHANGED out_files
    /\ UNCHANGED <<env, keys, out_files0, patchVars, signerVars>>

\* save_keys_to_files, line 73.
SaveWritePrivate ==
    /\ kpc = "write_private"
    /\ WriteOrRaise("sparkle_private_key.txt",
                    IF keys[1] = None THEN None ELSE <<keys[1]>>, "open_public")
    /\ UNCHANGED <<env, keys, out_files0, patchVars, signerVars>>

\* save_keys_to_files, lines 76-77.
SaveOpenPublic ==
    /\ kpc = "open_public"
    /\ \/ OpenW("sparkle_public_key.txt") /\ kpc' = "write_public" /\ UNCHANGED kexit
       \/ KeygenUncaught /\ UNCHANGED out_files
    /\ UNCHANGED <<env, keys, out_files0, patchVars, signerVars>>

\* save_keys_to_files, line 78.
SaveWritePublic ==
    /\ kpc = "write_public"
    /\ WriteOrRaise("sparkle_public_key.txt",
                    IF keys[2] = None THEN None ELSE <<keys[2]>>, "chmod")
    /\ UNCHANGED <<env, keys, out_files0, patchVars, signerVars>>

\* save_keys_to_files, line 81: os.chmod(private_key_file, 0o600).
SaveChmod ==
    /\ kpc = "chmod"
    /\ out_files' = [out_files EXCEPT !["sparkle_private_key.txt"].mode = OwnerOnly]
    /\ kpc' = "guide"
    /\ UNCHANGED <<env, keys, out_files0, kexit, patchVars, signerVars>>

\* generate_github_secrets_instructions, lines 95-106: the guide holds the
\* private key in clear.
Guide(private_key_text) ==
    <<"# GitHub Secrets Setup Instructions", "5. Value: ", private_key_text,
      "6. Click Add secret">>

\* main, lines 145-157: the guide is written, and main returns 0.
MainWriteGuide ==
    /\ kpc = "guide"
    /\ \/ /\ out_files' = [out_files EXCEPT !["github_secrets_setup.md"] =
                 [exists |-> TRUE, data |-> Guide(keys[1]),
                  mode |-> IF @.exists THEN @.mode ELSE ReadWriteAll \ env.umask]]
          /\ kpc' = "done" /\ kexit' = {0}
       \/ KeygenUncaught /\ UNCHANGED out_files
    /\ UNCHANGED <<env, keys, out_files0, patchVars, signerVars>>

KeygenNext ==
    \/ GenerateWithSparkleTools \/ GenerateWithPython \/ MainCheckKeys
    \/ SaveOpenPrivate \/ SaveWritePrivate \/ SaveOpenPublic \/ SaveWritePublic
    \/ SaveChmod \/ MainWriteGuide

KeygenSpecInit == KeygenInit /\ PatchIdle /\ SignerIdle
SpecKeygen == KeygenSpecInit /\ [][KeygenNext]_vars

PatchSpecInit == PatchInit /\ SignerIdle /\ KeygenIdle
PatchNext == UpdateAppcast
SpecPatch == PatchSpecInit /\ [][PatchNext]_vars

SignerSpecInit == SignerInit /\ PatchIdle /\ KeygenIdle
SpecSigner == SignerSpecInit /\ [][SignerNext]_vars

\* ================================================= claims about FeedPatcher
Lines0 == Split(doc0)
LinesNow == Split(content)
LinesFirst == Split(afterFirst)

\* C1: FeedPatcher is idempotent: a second run with the same SignatureMap leaves
\* the document exactly as the first run left it, and no line ever carries more
\* than one sparkle:edSignature attribute.
C1_Idempotent ==
    /\ runs = 2 => content = afterFirst
    /\ \A i \in 1..Len(LinesNow) : Len(SigValues(LinesNow[i])) <= 1

\* C2: every entry whose URL references an asset file name that is not a key of
\* the SignatureMap is identical before and after the run, also when its name
\* merely contains a key.
C2_UntouchedEntriesPreserved ==
    runs >= 1 =>
        \A i \in 1..Len(Lines0) :
            (IsEntry(Lines0[i]) /\ EntryAsset(Lines0[i]) \notin Keys(sigs))
                => LinesFirst[i] = Lines0[i]

\* C3: after one run on a document whose entries carry no signature yet, every
\* entry whose URL references an asset present in the SignatureMap carries
\* exactly one sparkle:edSignature attribute, holding that asset's signature.
C3_EveryMatchingEntrySigned ==
    (runs >= 1 /\ \A i \in 1..Len(Lines0) : ~LineSigned(Lines0[i])) =>
        \A i \in 1..Len(Lines0) :
            (IsEntry(Lines0[i]) /\ EntryAsset(Lines0[i]) \in Keys(sigs))
                => SigValues(LinesFirst[i]) = <<Lookup(sigs, EntryAsset(Lines0[i]))>>

\* C9: the patched document is the same for every order in which the items of
\* the SignatureMap are iterated.
C9_OrderIndependent ==
    runs >= 1 =>
        \A o \in Perms(Keys(sigs)) : PatchContent(doc0, Items(o)) = afterFirst

\* ================================================= claims about AssetSigner
Signed == {n \in AssetNames : outcome[n] \in {"signed", "py_signed"}}
FailedToSign ==
    {n \in AssetNames :
        outcome[n] \in {"tool_failed", "empty", "py_import_error", "py_error"}}
AfterLoops == {"save", "docs", "feeds", "u_read", "u_open", "u_write", "done"}
AfterSave == AfterLoops \ {"save"}
Ran == Truthy(private_key) /\ assets_exists

\* C4: with a key set and the assets directory present, whichever files fail to
\* sign (tool exits non-zero, key unparsable, backend missing), main processes
\* every file, persists a SignatureMap whose keys are exactly the files whose
\* signing returned a non-empty signature, visits the feeds and returns 0.
C4_PartialFailureTolerance ==
    /\ spc = "crashed" => \E n \in AssetNames : outcome[n] = "tmp_write_error"
    /\ (Ran /\ spc \in AfterLoops) =>
          /\ Signed \cup FailedToSign = dist
          /\ Keys(asset_signatures) = Signed
          /\ \A n \in Signed : Lookup(asset_signatures, n) = SigFor(n)
    /\ (Ran /\ spc \in AfterSave) => signatures_file = File(asset_signatures)
    /\ (Ran /\ spc = "done") =>
          /\ exit_code = {0}
          /\ \A f \in FeedSet : disk0.feeds[f].exists => feed_result[f] # "none"

C4_Witness ==
    /\ spc = "done" /\ exit_code = {0}
    /\ \E n \in dist : outcome[n] = "tool_failed"
    /\ \E n \in dist : outcome[n] = "signed"
    /\ signatures_file = File(asset_signatures)
    /\ \E f \in FeedSet : feed_result[f] = "updated"

\* C5: with SPARKLE_PRIVATE_KEY unset or empty, main returns 0 and has no effect
\* on disk: no backend is invoked, signatures.json is neither created nor
\* overwritten, no feed is opened for writing; whatever the assets directory.
C5_SoftSkip ==
    ~Truthy(private_key) =>
        /\ exit_code \in {{}, {0}}
        /\ spc = "done" => exit_code = {0}
        /\ spc \in {"main", "done"}
        /\ backend_calls = 0
        /\ opened_w = {}
        /\ tmp_keys = {}
        /\ signatures_file = disk0.sig
        /\ feeds = disk0.feeds

C5_Witness ==
    /\ ~Truthy(private_key) /\ ~assets_exists
    /\ spc = "done" /\ exit_code = {0}
    /\ \E f \in FeedSet : feeds[f].exists

\* C7: on the external-binary path the temporary private-key file is gone when
\* generate_eddsa_signature returns or raises, on every exit path; no such file
\* remains after any sequence of signing calls.
C7_TempKeyRemoved ==
    spc \notin {"run", "unlink"} => tmp_keys = {}

\* C8: a feed update that fails leaves the on-disk document exactly as it was
\* before the call, and the failure neither leaves the function nor changes
\* main's exit code.
C8_FeedFailureAtomic ==
    /\ \A f \in FeedSet : feed_result[f] = "failed" => feeds[f] = disk0.feeds[f]
    /\ (spc = "done" /\ \E f \in FeedSet : feed_result[f] = "failed")
          => exit_code = {0}

\* ================================================ claims about KeyGenerator
CompletePair == keys # NoKeys /\ keys[1] # None /\ keys[2] # None
GenerationOver == kpc \notin {"main", "fallback"}

\* C6: files are written only after key generation has fully succeeded: in a run
\* in which no backend yields a complete pair, main exits non-zero and none of
\* the three output files has been created or modified.
C6_NoFilesWithoutKeys ==
    (GenerationOver /\ ~CompletePair) =>
        /\ out_files = out_files0
        /\ kpc \in {"done", "crashed"} => (kexit # {} /\ 0 \notin kexit)

\* C10: in every reachable state, any file of the output directory that holds
\* the private key has owner-read/write-only permission bits.
C10_PrivateKeyOwnerOnly ==
    \A f \in OutNames :
        (out_files[f].exists /\ HasToken(out_files[f].data, "SK"))
            => out_files[f].mode = OwnerOnly

====
